---- MODULE Spec2Model ----
(***************************************************************************)
(* Bloom filter of morhadi/bloom-filter (src/main.cpp): three string       *)
(* hashes, a bitset<1000001>, the BloomFilter class and main's menu loop.  *)
(*                                                                         *)
(* A string is a sequence of char values (signed char, as on the x86-64    *)
(* build: -128..127).  An unsigned long long is a sequence of four 16-bit  *)
(* limbs, least significant first, because the model checker's integers    *)
(* are 32 bits wide; every 64-bit operation of the source is carried out   *)
(* limb by limb and wraps modulo 2^64 exactly as the machine word does.    *)
(***************************************************************************)
EXTENDS Integers, Sequences, FiniteSets, TLC

VARIABLES bits, size, pc, addLog, out

vars == <<bits, size, pc, addLog, out>>

(***************************************************************************)
(* Program constants.                                                      *)
(***************************************************************************)
p == 31
m == 1000000009
N == 1000001
CharA == 97
Djb2Seed == 5381

(***************************************************************************)
(* Bounds of the model.                                                    *)
(***************************************************************************)
MaxLen == 3
MaxAdds == 2
MaxLoad == 3
MaxQuery == 2

(***************************************************************************)
(* unsigned long long: four limbs of 16 bits, little endian.               *)
(***************************************************************************)
LimbBits == 16
Base == 2 ^ LimbBits
NLimbs == 4

\* An int 0 <= n < 2^31 converted to unsigned long long.
U64(n) == <<n % Base, (n \div Base) % Base, 0, 0>>

RECURSIVE AddLimbs(_, _, _, _)
AddLimbs(a, b, i, carry) ==
    IF i > NLimbs THEN <<>>
    ELSE LET t == a[i] + b[i] + carry
         IN  <<t % Base>> \o AddLimbs(a, b, i + 1, t \div Base)

\* a + b in unsigned long long: the carry out of the top limb is dropped.
U64Add(a, b) == AddLimbs(a, b, 1, 0)

\* 0 - a in unsigned long long (two's complement).
U64Neg(a) == U64Add([i \in 1..NLimbs |-> Base - 1 - a[i]], U64(1))

\* a - b in unsigned long long: wraps below zero.
U64Sub(a, b) == U64Add(a, U64Neg(b))

RECURSIVE MulLimbs(_, _, _, _)
MulLimbs(a, k, i, carry) ==
    IF i > NLimbs THEN <<>>
    ELSE LET t == a[i] * k + carry
         IN  <<t % Base>> \o MulLimbs(a, k, i + 1, t \div Base)

\* a * k in unsigned long long, for a multiplier 0 <= k < 2^15.
U64MulSmall(a, k) == MulLimbs(a, k, 1, 0)

\* a << n in unsigned long long, 0 <= n < 32: the high bits are discarded.
U64Shl(a, n) ==
    IF n >= LimbBits
    THEN U64MulSmall(<<0, a[1], a[2], a[3]>>, 2 ^ (n - LimbBits))
    ELSE U64MulSmall(a, 2 ^ n)

\* A signed value |n| < 2^31 converted to unsigned long long (sign extension).
U64FromSigned(n) == IF n >= 0 THEN U64(n) ELSE U64Neg(U64(-n))

\* The signed product k * q (|k| < 2^15, 0 <= q < 2^31, so no signed
\* overflow) converted to unsigned long long.
U64SignedProduct(k, q) ==
    IF k >= 0 THEN U64MulSmall(U64(q), k)
    ELSE U64Neg(U64MulSmall(U64(q), -k))

\* The element of a one-element set.  TheOne({F(x) : x \in {e}}) is F(e)
\* with e evaluated first: operator arguments and LET definitions are
\* evaluated on demand, and binding the value keeps the evaluation of a
\* loop from nesting one iteration inside the next.
TheOne(S) == CHOOSE r \in S : TRUE

RECURSIVE ModBits(_, _, _, _)
\* The remainder after the bits LimbBits-1 .. j of limb are shifted into r.
ModBits(r, limb, j, mm) ==
    IF j >= LimbBits THEN r
    ELSE (2 * ModBits(r, limb, j + 1, mm) + ((limb \div (2 ^ j)) % 2)) % mm

RECURSIVE ModLimbs(_, _, _)
\* The remainder of the limbs NLimbs .. i of a, most significant first.
ModLimbs(a, i, mm) ==
    IF i > NLimbs THEN 0
    ELSE TheOne({ ModBits(r, a[i], 0, mm)
           : r \in {ModLimbs(a, i + 1, mm)}})

\* a % mm for an unsigned long long a and 0 < mm < 2^30; the result is an int.
U64Mod(a, mm) == ModLimbs(a, 1, mm)

(***************************************************************************)
(* The three hash functions.  Each loop is unrolled over the prefix of s   *)
(* already consumed: XxxLoop(s, i) is the loop state after i characters.   *)
(***************************************************************************)
RECURSIVE PolyLoop_pow_unreduced(_, _, _, _)
\* Faulty variant: polynomial_hash's loop with p_pow = p_pow * p, without % m.
\* The power is followed up to 2^31 - 1, which is beyond mm, and held there.
PolyLoop_pow_unreduced(s, i, pp, mm) ==
    IF i = 0 THEN [hash |-> 0, p_pow |-> 1]
    ELSE TheOne({
           LET c == s[i]
               term == U64SignedProduct(c - CharA + 1, prev.p_pow)
           IN  [hash  |-> U64Mod(U64Add(U64(prev.hash), term), mm),
                p_pow |-> IF prev.p_pow > 2147483647 \div pp
                          THEN 2147483647
                          ELSE prev.p_pow * pp]
           : prev \in {PolyLoop_pow_unreduced(s, i - 1, pp, mm)}})

RECURSIVE PolyLoop(_, _, _, _)
PolyLoop(s, i, pp, mm) ==
    IF i = 0 THEN [hash |-> 0, p_pow |-> 1]
    ELSE TheOne({
           LET c == s[i]
               term == U64SignedProduct(c - CharA + 1, prev.p_pow)
           IN  [hash  |-> U64Mod(U64Add(U64(prev.hash), term), mm),
                p_pow |-> U64Mod(U64MulSmall(U64(prev.p_pow), pp), mm)]
           : prev \in {PolyLoop(s, i - 1, pp, mm)}})

\* polynomial_hash: hash is unsigned, so a negative term is added modulo 2^64
\* before the reduction modulo mm.  The result is below mm and kept as an int.
polynomial_hash(s, pp, mm) == PolyLoop(s, Len(s), pp, mm).hash

RECURSIVE Djb2Loop_shift4(_, _)
\* Faulty variant: djb2's loop with hash << 4.
Djb2Loop_shift4(s, i) ==
    IF i = 0 THEN U64(Djb2Seed)
    ELSE TheOne({
           LET c == s[i]
           IN  U64Add(U64Add(U64Shl(hash, 4), hash), U64FromSigned(c))
           : hash \in {Djb2Loop_shift4(s, i - 1)}})

RECURSIVE Djb2Loop(_, _)
Djb2Loop(s, i) ==
    IF i = 0 THEN U64(Djb2Seed)
    ELSE TheOne({
           LET c == s[i]
           IN  U64Add(U64Add(U64Shl(hash, 5), hash), U64FromSigned(c))
           : hash \in {Djb2Loop(s, i - 1)}})

djb2(s) == Djb2Loop(s, Len(s))

RECURSIVE SdbmLoop_plus(_, _)
\* Faulty variant: sdbm's loop with + hash in place of - hash.
SdbmLoop_plus(s, i) ==
    IF i = 0 THEN U64(0)
    ELSE TheOne({
           LET c == s[i]
           IN  U64Add(U64Add(U64Add(U64FromSigned(c), U64Shl(hash, 6)),
                             U64Shl(hash, 16)),
                      hash)
           : hash \in {SdbmLoop_plus(s, i - 1)}})

RECURSIVE SdbmLoop(_, _)
SdbmLoop(s, i) ==
    IF i = 0 THEN U64(0)
    ELSE TheOne({
           LET c == s[i]
           IN  U64Sub(U64Add(U64Add(U64FromSigned(c), U64Shl(hash, 6)),
                             U64Shl(hash, 16)),
                      hash)
           : hash \in {SdbmLoop(s, i - 1)}})

sdbm(s) == SdbmLoop(s, Len(s))

(***************************************************************************)
(* Inputs.  Strings are written as their char values.                      *)
(***************************************************************************)
Empty == <<>>
StrA == <<97>>
StrB == <<98>>
StrC == <<99>>
StrD == <<100>>
StrDC == <<100, 99>>
StrDot == <<46>>
EvilCom == <<101, 118, 105, 108, 46, 99, 111, 109>>
SafeCom == <<115, 97, 102, 101, 46, 99, 111, 109>>
\* "\xC3\xA9" (e acute in UTF-8): two bytes whose char value is negative.
StrUtf8 == <<-61, -87>>
\* "evil.example.com": 16 characters.
LongUrl == <<101, 118, 105, 108, 46, 101, 120, 97, 109, 112, 108, 101, 46, 99, 111, 109>>

\* The strings passed to add and contains.  "dc" shares one of its three
\* indices with "a"; "" has only two distinct indices.
Corpus == {Empty, StrA, StrB, StrC, StrD, StrDC, StrDot, EvilCom, SafeCom,
           StrUtf8, LongUrl}

\* All sequences over S of length at most n.
SeqsUpTo(S, n) == UNION {[1..k -> S] : k \in 0..n}

\* A file is either unopenable or a sequence of lines (std::getline).
File(lines) == [open |-> TRUE, lines |-> lines]
NoFile == [open |-> FALSE, lines |-> <<>>]

LoadLines == {Empty, StrA, StrB, StrC}
QueryLines == {StrA, StrD}
LoadFiles == {File(l) : l \in SeqsUpTo(LoadLines, MaxLoad)} \cup {NoFile}
QueryFiles == {File(l) : l \in SeqsUpTo(QueryLines, MaxQuery)} \cup {NoFile}

\* What `cin >> website` can deliver: a non-empty token.
Tokens == Corpus \ {Empty}

\* The characters and strings the hash functions are exercised on:
\* 'a', 'z', '.', 'A', '1' and the byte 0xC3 (a negative char).
HashChars == {97, 122, 46, 65, 49, -61}
HashStrings == SeqsUpTo(HashChars, MaxLen) \cup Corpus

(***************************************************************************)
(* std::bitset<N>: the set of positions whose bit is true.                 *)
(***************************************************************************)
\* Faulty variant: flip in place of set.
BitsetSet_flip(b, pos) == IF pos \in b THEN b \ {pos} ELSE b \cup {pos}

BitsetSet(b, pos) == b \cup {pos}
BitsetTest(b, pos) == pos \in b
BitsetSize(b) == N

(***************************************************************************)
(* class BloomFilter.                                                      *)
(***************************************************************************)
\* f in tabulated form: f @@ <<>> is f, with every value computed.
Tabulated(f) == f @@ <<>>

\* The locals hash, hash2 and hash3 of add.
AddHashes(s) ==
    [hash  |-> polynomial_hash(s, p, m),
     hash2 |-> U64Mod(djb2(s), m),
     hash3 |-> U64Mod(sdbm(s), m)]

\* The locals hash, hash2 and hash3 of contains.
ContainsHashes(s) ==
    [hash  |-> polynomial_hash(s, p, m),
     hash2 |-> U64Mod(djb2(s), m),
     hash3 |-> U64Mod(sdbm(s), m)]

\* The hash functions are pure, so the locals are computed once for each
\* string the filter is given.
AddHashesOf == Tabulated([s \in Corpus |-> AddHashes(s)])
ContainsHashesOf == Tabulated([s \in Corpus |-> ContainsHashes(s)])

\* Faulty variant: add without its third bits.set.
add_two_bits(b, s) ==
    LET h == AddHashesOf[s]
    IN  BitsetSet(BitsetSet(b, h.hash % N), h.hash2 % N)

\* Faulty variant: add with djb2 and sdbm reduced modulo the bitset's size only.
add_full_width(b, s) ==
    BitsetSet(BitsetSet(BitsetSet(b, polynomial_hash(s, p, m) % N),
                        U64Mod(djb2(s), N)),
              U64Mod(sdbm(s), N))

\* Faulty variant: add that replaces the bitset by the three bits of s.
add_overwrite(b, s) ==
    LET h == AddHashesOf[s]
    IN  BitsetSet(BitsetSet(BitsetSet({}, h.hash % N), h.hash2 % N), h.hash3 % N)

\* Faulty variant: add that returns early when the first bit of s is already set.
add_skip_if_first_set(b, s) ==
    LET h == AddHashesOf[s]
    IN  IF BitsetTest(b, h.hash % N) THEN b
        ELSE BitsetSet(BitsetSet(BitsetSet(b, h.hash % N), h.hash2 % N), h.hash3 % N)

\* Faulty variant: add passing hash2 to bits.set as it is, without % bits.size().
add_unreduced(b, s) ==
    LET h == AddHashesOf[s]
    IN  BitsetSet(BitsetSet(BitsetSet(b, h.hash % N), h.hash2), h.hash3 % N)

\* BloomFilter::add, as a function of the bitset.
add(b, s) ==
    LET h == AddHashesOf[s]
    IN  BitsetSet(BitsetSet(BitsetSet(b, h.hash % N), h.hash2 % N), h.hash3 % N)

\* Faulty variant: contains that takes the empty string for a member.
contains_empty_true(b, s) ==
    LET h == ContainsHashesOf[s]
    IN  \/ s = <<>>
        \/ /\ BitsetTest(b, h.hash % N)
           /\ BitsetTest(b, h.hash2 % N)
           /\ BitsetTest(b, h.hash3 % N)

\* Faulty variant: contains with || in place of &&.
contains_any_bit(b, s) ==
    LET h == ContainsHashesOf[s]
    IN  \/ BitsetTest(b, h.hash % N)
        \/ BitsetTest(b, h.hash2 % N)
        \/ BitsetTest(b, h.hash3 % N)

\* BloomFilter::contains.
contains(b, s) ==
    LET h == ContainsHashesOf[s]
    IN  /\ BitsetTest(b, h.hash % N)
        /\ BitsetTest(b, h.hash2 % N)
        /\ BitsetTest(b, h.hash3 % N)

RECURSIVE CtorLoop_skip_empty(_, _, _)
\* Faulty variant: The constructor's loop with `if (line.empty()) continue;` before add.
CtorLoop_skip_empty(st, lines, i) ==
    IF i = 0 THEN st
    ELSE TheOne({
           IF lines[i] = <<>> THEN prev
           ELSE [bits  |-> add(prev.bits, lines[i]),
                 size  |-> prev.size + 1,
                 calls |-> Append(prev.calls, lines[i])]
           : prev \in {CtorLoop_skip_empty(st, lines, i - 1)}})

RECURSIVE CtorLoop(_, _, _)
\* The constructor's while (getline(file, line)) loop after i lines:
\* add(line); size++.  calls records the arguments add was called with.
CtorLoop(st, lines, i) ==
    IF i = 0 THEN st
    ELSE TheOne({
           [bits  |-> add(prev.bits, lines[i]),
            size  |-> prev.size + 1,
            calls |-> Append(prev.calls, lines[i])]
           : prev \in {CtorLoop(st, lines, i - 1)}})

\* BloomFilter::BloomFilter(filename), from the initialised members st.
BloomFilter(st, f) ==
    IF f.open THEN CtorLoop(st, f.lines, Len(f.lines)) ELSE st

RECURSIVE TestLoop_adds(_, _, _)
\* Faulty variant: test's loop with the constructor's add(line) left in it.
TestLoop_adds(b, lines, i) ==
    IF i = 0
    THEN [bits |-> b, positives |-> 0, negatives |-> 0,
          maliciousUrls |-> <<>>, checked |-> <<>>]
    ELSE TheOne({
           LET line == lines[i]
               result == contains(prev.bits, line)
           IN  [bits          |-> add(prev.bits, line),
                positives     |-> prev.positives + (IF result THEN 1 ELSE 0),
                negatives     |-> prev.negatives + (IF result THEN 0 ELSE 1),
                maliciousUrls |-> IF result THEN Append(prev.maliciousUrls, line)
                                  ELSE prev.maliciousUrls,
                checked       |-> Append(prev.checked, <<line, result>>)]
           : prev \in {TestLoop_adds(b, lines, i - 1)}})

RECURSIVE TestLoop_dedup(_, _, _)
\* Faulty variant: test's loop storing a matched line only when it is not stored yet.
TestLoop_dedup(b, lines, i) ==
    IF i = 0
    THEN [bits |-> b, positives |-> 0, negatives |-> 0,
          maliciousUrls |-> <<>>, checked |-> <<>>]
    ELSE TheOne({
           LET line == lines[i]
               result == contains(prev.bits, line)
               stored == \E j \in 1..Len(prev.maliciousUrls) :
                            prev.maliciousUrls[j] = line
           IN  [bits          |-> prev.bits,
                positives     |-> prev.positives + (IF result THEN 1 ELSE 0),
                negatives     |-> prev.negatives + (IF result THEN 0 ELSE 1),
                maliciousUrls |-> IF result /\ ~stored
                                  THEN Append(prev.maliciousUrls, line)
                                  ELSE prev.maliciousUrls,
                checked       |-> Append(prev.checked, <<line, result>>)]
           : prev \in {TestLoop_dedup(b, lines, i - 1)}})

RECURSIVE TestLoop(_, _, _)
\* test's while (getline(file, line)) loop after i lines.  checked records
\* the calls of contains and what they returned.
TestLoop(b, lines, i) ==
    IF i = 0
    THEN [bits |-> b, positives |-> 0, negatives |-> 0,
          maliciousUrls |-> <<>>, checked |-> <<>>]
    ELSE TheOne({
           LET line == lines[i]
               result == contains(prev.bits, line)
           IN  [bits          |-> prev.bits,
                positives     |-> prev.positives + (IF result THEN 1 ELSE 0),
                negatives     |-> prev.negatives + (IF result THEN 0 ELSE 1),
                maliciousUrls |-> IF result THEN Append(prev.maliciousUrls, line)
                                  ELSE prev.maliciousUrls,
                checked       |-> Append(prev.checked, <<line, result>>)]
           : prev \in {TestLoop(b, lines, i - 1)}})

\* Faulty variant: test running its loop once, on an empty line, when the file
\* is not open.
test_unopened_reads(b, f) ==
    IF f.open THEN TestLoop(b, f.lines, Len(f.lines)) ELSE TestLoop(b, <<Empty>>, 1)

\* BloomFilter::test(filename): the bitset it leaves and what it prints.
test(b, f) ==
    IF f.open THEN TestLoop(b, f.lines, Len(f.lines)) ELSE TestLoop(b, <<>>, 0)

\* BloomFilter::get_bits: a copy of the bitset.
get_bits(b) == b

\* The record of a call of test on file f that ended in r.
TestOut(f, r) ==
    [op |-> "test", file |-> f, error |-> ~f.open,
     positives |-> r.positives, negatives |-> r.negatives,
     maliciousUrls |-> r.maliciousUrls, checked |-> r.checked]

\* The members after the initialiser list size(0), bits(0).
Init ==
    /\ bits = {}
    /\ size = 0
    /\ pc = "start"
    /\ addLog = <<>>
    /\ out = [op |-> "none"]

\* The constructor, leaving control at next.
Constructed(f, next) ==
    /\ pc = "start"
    /\ LET end == BloomFilter([bits |-> bits, size |-> size, calls |-> addLog], f)
       IN  /\ bits' = end.bits
           /\ size' = end.size
           /\ addLog' = end.calls
    /\ pc' = next
    /\ out' = [op |-> "BloomFilter", file |-> f, error |-> ~f.open]

(***************************************************************************)
(* The class under any client: the constructor, then any public method in  *)
(* any order.                                                              *)
(***************************************************************************)
New(f) == Constructed(f, "live")

Add(s) ==
    /\ pc = "live"
    /\ Len(addLog) < MaxAdds
    /\ bits' = add(bits, s)
    /\ addLog' = Append(addLog, s)
    /\ out' = [op |-> "add", s |-> s]
    /\ UNCHANGED <<size, pc>>

Contains(s) ==
    /\ pc = "live"
    /\ out' = [op |-> "contains", s |-> s, result |-> contains(bits, s)]
    /\ UNCHANGED <<bits, size, pc, addLog>>

Test(f) ==
    /\ pc = "live"
    /\ LET r == test(bits, f)
       IN  /\ bits' = r.bits
           /\ out' = TestOut(f, r)
    /\ UNCHANGED <<size, pc, addLog>>

GetBits ==
    /\ pc = "live"
    /\ out' = [op |-> "get_bits", result |-> get_bits(bits)]
    /\ UNCHANGED <<bits, size, pc, addLog>>

NextClient ==
    \/ \E f \in LoadFiles : New(f)
    \/ \E s \in Corpus : Add(s)
    \/ \E s \in Corpus : Contains(s)
    \/ \E f \in QueryFiles : Test(f)
    \/ GetBits

(***************************************************************************)
(* main: the constructor, then the menu loop.  An iteration prints the     *)
(* menu and waits for the choice ("menu" to "choice"), then handles the    *)
(* choice ("choice" to "menu" or "done").                                  *)
(***************************************************************************)
\* BloomFilter bf("malicious.csv").
MainConstruct(f) == Constructed(f, "menu")

\* The menu text, with bf.get_bits().size().
MenuShow ==
    /\ pc = "menu"
    /\ pc' = "choice"
    /\ out' = [op |-> "menu", bitset_size |-> BitsetSize(get_bits(bits))]
    /\ UNCHANGED <<bits, size, addLog>>

\* cin >> choice fails: the input is discarded and the loop continues.
MenuInvalidInput ==
    /\ pc = "choice"
    /\ pc' = "menu"
    /\ out' = [op |-> "invalid input"]
    /\ UNCHANGED <<bits, size, addLog>>

\* choice == 1: cin >> test_filename; bf.test(test_filename).
MenuTestFile(f) ==
    /\ pc = "choice"
    /\ pc' = "menu"
    /\ LET r == test(bits, f)
       IN  /\ bits' = r.bits
           /\ out' = TestOut(f, r)
    /\ UNCHANGED <<size, addLog>>

\* choice == 2: cin >> website; bf.contains(website).
MenuTestString(w) ==
    /\ pc = "choice"
    /\ pc' = "menu"
    /\ out' = [op |-> "contains", s |-> w, result |-> contains(bits, w)]
    /\ UNCHANGED <<bits, size, addLog>>

\* choice == 3: break; return 0.
MenuExit ==
    /\ pc = "choice"
    /\ pc' = "done"
    /\ out' = [op |-> "exit"]
    /\ UNCHANGED <<bits, size, addLog>>

\* Any other number.
MenuInvalidChoice ==
    /\ pc = "choice"
    /\ pc' = "menu"
    /\ out' = [op |-> "invalid choice"]
    /\ UNCHANGED <<bits, size, addLog>>

NextMain ==
    \/ \E f \in LoadFiles : MainConstruct(f)
    \/ MenuShow
    \/ MenuInvalidInput
    \/ \E f \in QueryFiles : MenuTestFile(f)
    \/ \E w \in Tokens : MenuTestString(w)
    \/ MenuExit
    \/ MenuInvalidChoice

\* The program.
SpecMain == Init /\ [][NextMain]_vars

\* The filter in the program or under any other client.
Next == NextClient \/ NextMain

Spec == Init /\ [][Next]_vars

(***************************************************************************)
(* The hash functions on their own: each action applies one of them to a   *)
(* string and records the value returned.                                  *)
(***************************************************************************)
InitHash ==
    /\ bits = {}
    /\ size = 0
    /\ pc = "hash"
    /\ addLog = <<>>
    /\ out = [op |-> "none"]

CallPolynomialHash(s) ==
    /\ pc = "hash"
    /\ out' = [op |-> "polynomial_hash", s |-> s, result |-> polynomial_hash(s, p, m)]
    /\ pc' = "returned"
    /\ UNCHANGED <<bits, size, addLog>>

CallDjb2(s) ==
    /\ pc = "hash"
    /\ out' = [op |-> "djb2", s |-> s, result |-> djb2(s)]
    /\ pc' = "returned"
    /\ UNCHANGED <<bits, size, addLog>>

CallSdbm(s) ==
    /\ pc = "hash"
    /\ out' = [op |-> "sdbm", s |-> s, result |-> sdbm(s)]
    /\ pc' = "returned"
    /\ UNCHANGED <<bits, size, addLog>>

NextHash ==
    \/ \E s \in HashStrings : CallPolynomialHash(s)
    \/ \E s \in HashStrings : CallDjb2(s)
    \/ \E s \in HashStrings : CallSdbm(s)

SpecHash == InitHash /\ [][NextHash]_vars

(***************************************************************************)
(* Properties.                                                             *)
(***************************************************************************)
\* The strings add has been called with.
Added == {addLog[i] : i \in 1..Len(addLog)}

\* The bits add(s) sets on an empty bitset.
IndexSet(s) == add({}, s)

\* C1: no false negatives.  In every state, contains is true of every
\* string add was ever called with; a call of contains on such a string has
\* returned true, and a bulk query has reported every such candidate as a
\* match, whatever was added or queried in between.
C1_NoFalseNegatives ==
    /\ \A s \in Added : contains(bits, s)
    /\ (out.op = "contains" /\ out.s \in Added) => out.result
    /\ out.op = "test" =>
         \A j \in 1..Len(out.checked) :
            out.checked[j][1] \in Added => out.checked[j][2]

\* "a" was added, then another string, and contains("a") was then called.
C1_Witness ==
    /\ out.op = "contains"
    /\ out.s = StrA
    /\ Len(addLog) >= 2
    /\ addLog[1] = StrA
    /\ addLog[2] # StrA
    /\ out.result

\* C2: contains(s) is true exactly when every bit add(s) would set is set;
\* so when one of them is unset, contains(s) is false and s was never added.
C2_ContainsIffAllBitsSet ==
    /\ \A s \in Corpus :
          /\ contains(bits, s) <=> (IndexSet(s) \subseteq bits)
          /\ ~(IndexSet(s) \subseteq bits) => (~contains(bits, s) /\ s \notin Added)
    /\ out.op = "contains" => (out.result <=> (IndexSet(out.s) \subseteq bits))

\* contains("dc") returned false while one of the bits of "dc" was set
\* (by add("a")).
C2_Witness ==
    /\ out.op = "contains"
    /\ out.s = StrDC
    /\ ~out.result
    /\ IndexSet(StrDC) \cap bits # {}
    /\ StrA \in Added

\* The three indices as the hash functions give them, with djb2 and sdbm
\* first reduced modulo m (unsigned), then all three modulo N.
C3_Indices ==
    Tabulated([s \in Corpus |->
        {polynomial_hash(s, p, m) % N,
         U64Mod(djb2(s), m) % N,
         U64Mod(sdbm(s), m) % N}])

\* The three indices with djb2 and sdbm reduced modulo N only.
C3_FullWidthIndices ==
    Tabulated([s \in Corpus |->
        {polynomial_hash(s, p, m) % N,
         U64Mod(djb2(s), N),
         U64Mod(sdbm(s), N)}])

\* C3 as stated: add(s) sets exactly the bits polynomial_hash(s, p, m) mod N,
\* djb2(s) mod N and sdbm(s) mod N, djb2 and sdbm being reduced modulo N
\* only, and leaves every other bit as it was.
C3_Original ==
    [][\A s \in Corpus : Add(s) => bits' = bits \cup C3_FullWidthIndices[s]]_vars

\* C3, amended: add(s) sets exactly the bits polynomial_hash(s, p, m) mod N,
\* (djb2(s) mod m) mod N and (sdbm(s) mod m) mod N, and leaves every other
\* bit as it was.
C3_AddSetsThreeIndices ==
    [][\A s \in Corpus : Add(s) => bits' = bits \cup C3_Indices[s]]_vars

\* add("evil.com"), whose djb2 and sdbm values exceed m, was called on a
\* bitset that already held other bits, and those are still set.
C3_Witness ==
    /\ out.op = "add"
    /\ out.s = EvilCom
    /\ C3_Indices[EvilCom] # C3_FullWidthIndices[EvilCom]
    /\ Len(addLog) = 2
    /\ addLog[1] = StrA
    /\ bits = IndexSet(StrA) \cup C3_Indices[EvilCom]
    /\ Cardinality(bits) = 6

\* C4: no step clears a bit, and a filter on which add has been called is
\* not, and never again becomes, the empty bitset.
C4_BitsNeverCleared ==
    [][/\ bits \subseteq bits'
       /\ addLog # <<>> => (bits # {} /\ bits' # {})]_vars

\* A bulk query ran on a filter loaded by the constructor and added to
\* afterwards, and all the bits of the strings added are set.
C4_Witness ==
    /\ out.op = "test"
    /\ size > 0
    /\ Len(addLog) > size
    /\ \A s \in Added : IndexSet(s) \subseteq bits

RECURSIVE MulMod(_, _, _)
\* (a * k) mod mm for 0 <= a < mm < 2^30 and k >= 0, by doubling, so that no
\* intermediate value leaves the 32-bit range.
MulMod(a, k, mm) ==
    IF k = 0 THEN 0
    ELSE (((2 * MulMod(a, k \div 2, mm)) % mm) + ((k % 2) * a)) % mm

RECURSIVE PowMod(_, _, _)
\* (b ^ i) mod mm.
PowMod(b, i, mm) == IF i = 0 THEN 1 % mm ELSE MulMod(PowMod(b, i - 1, mm), b, mm)

RECURSIVE C5_Residue(_, _, _)
\* The residue in [0, m) of the sum over j <= i of
\* (s[j] - 'a' + 1) * p^(j-1), the characters being numbered from 1.
C5_Residue(s, i, mm) ==
    IF i = 0 THEN 0
    ELSE LET k == s[i] - CharA + 1
             pw == PowMod(p, i - 1, mm)
             term == IF k >= 0 THEN MulMod(pw, k, mm)
                     ELSE (mm - MulMod(pw, -k, mm)) % mm
         IN  (C5_Residue(s, i - 1, mm) + term) % mm

\* C5 as stated: for every string, with characters below 'a' included,
\* polynomial_hash(s, p, m) returns the mathematical residue in [0, m) of
\* the sum of (char - 'a' + 1) * p^i.
C5_PolynomialHashIsResidue ==
    out.op = "polynomial_hash" => out.result = C5_Residue(out.s, Len(out.s), m)

\* The rearrangements of a sequence.
Rearrangements(seq) ==
    LET n == Len(seq)
        Bijections == {q \in [1..n -> 1..n] : \A i, j \in 1..n : q[i] = q[j] => i = j}
    IN  {[i \in 1..n |-> seq[q[i]]] : q \in Bijections}

RECURSIVE AddAll(_, _, _)
\* The bitset after add is called on b with the first i strings of seq.
AddAll(b, seq, i) == IF i = 0 THEN b ELSE add(AddAll(b, seq, i - 1), seq[i])

\* C6: order independence.  The bitset reached by the calls of add made so
\* far is the bitset that adding the same strings to an empty filter in any
\* other order gives, and so is every answer of contains.
C6_OrderIndependence ==
    \A q \in Rearrangements(addLog) :
        LET other == AddAll({}, q, Len(q))
        IN  /\ other = bits
            /\ \A s \in Corpus : contains(other, s) = contains(bits, s)

\* Three different strings were added, in an order that is not the only one.
C6_Witness ==
    /\ addLog = <<StrC, StrA, StrB>>
    /\ Cardinality(Rearrangements(addLog)) = 6
    /\ bits = AddAll({}, <<StrA, StrB, StrC>>, 3)

\* C7: idempotence of add.  When the previous call of add was add(s), a
\* further add(s) leaves the bitset as it is.
C7_AddIdempotent ==
    [][\A s \in Corpus :
          (Add(s) /\ addLog # <<>> /\ addLog[Len(addLog)] = s) => bits' = bits]_vars

\* add("evil.com") was called twice in a row.
C7_Witness ==
    /\ out.op = "add"
    /\ addLog = <<EvilCom, EvilCom>>
    /\ bits = IndexSet(EvilCom)

\* C8: queries are read-only.  A call of contains, test or get_bits leaves
\* the bitset and the count as they were; and once main has constructed the
\* filter, no step of the menu loop changes the bitset, the count or the
\* answer contains gives for any string.
C8_QueriesReadOnly ==
    [][(pc \in {"menu", "choice"} \/ out'.op \in {"contains", "test", "get_bits"})
          => /\ bits' = bits
             /\ size' = size
             /\ \A s \in Corpus : contains(bits', s) = contains(bits, s)]_vars

\* In main, a file with a matching and a non-matching line was tested on a
\* filter loaded with three lines, and the filter is as the constructor
\* left it.
C8_Witness ==
    /\ pc = "menu"
    /\ out.op = "test"
    /\ out.positives = 1
    /\ out.negatives = 1
    /\ size = 3
    /\ bits = AddAll({}, addLog, Len(addLog))

\* C9: bulk query partition.  test calls contains once on each candidate in
\* input order; the matched list is the subsequence of the candidates of
\* which contains is true, duplicates kept; positives is its length,
\* negatives the number of the other candidates, and they add up to the
\* number of candidates.  After loading ["a","b","c"], testing ["a","d"]
\* gives matched = ["a"], positives = 1, negatives = 1.
C9_BulkQueryPartition ==
    /\ (out.op = "test" /\ out.file.open) =>
          LET lines == out.file.lines
              n == Len(lines)
          IN  /\ out.checked = [j \in 1..n |-> <<lines[j], contains(bits, lines[j])>>]
              /\ out.maliciousUrls = SelectSeq(lines, LAMBDA l : contains(bits, l))
              /\ out.positives = Len(out.maliciousUrls)
              /\ out.negatives = Cardinality({j \in 1..n : ~contains(bits, lines[j])})
              /\ out.positives + out.negatives = n
    /\ (out.op = "test" /\ addLog = <<StrA, StrB, StrC>>
           /\ out.file = File(<<StrA, StrD>>)) =>
          /\ out.maliciousUrls = <<StrA>>
          /\ out.positives = 1
          /\ out.negatives = 1

\* ["a","d"] was tested after ["a","b","c"] was loaded.
C9_Witness ==
    /\ out.op = "test"
    /\ addLog = <<StrA, StrB, StrC>>
    /\ size = 3
    /\ out.file = File(<<StrA, StrD>>)
    /\ out.checked = <<<<StrA, TRUE>>, <<StrD, FALSE>>>>

\* C10: bulk construction.  Right after the constructor has read a file of
\* k lines, add has been called on each line once in file order (empty
\* lines too), the count is k, the bitset is the union of the lines' index
\* sets, and contains is true of every line.
C10_BulkConstruction ==
    (out.op = "BloomFilter" /\ out.file.open) =>
        LET lines == out.file.lines
            k == Len(lines)
        IN  /\ addLog = lines
            /\ size = k
            /\ bits = UNION {C3_Indices[lines[j]] : j \in 1..k}
            /\ \A j \in 1..k : contains(bits, lines[j])

\* The constructor read the three lines "a", "" and "a".
C10_Witness ==
    /\ out.op = "BloomFilter"
    /\ out.file = File(<<StrA, Empty, StrA>>)
    /\ size = 3
    /\ Len(addLog) = 3

\* C11: a failed read never corrupts the filter.  A constructor that cannot
\* open its file leaves the empty filter (no bit set, count 0, add never
\* called), on which add and contains work as on any filter; a test that
\* cannot open its file calls neither contains nor add, leaves the bitset and
\* the count as they were and reports 0 positives and 0 negatives.
C11_FailedReadKeepsFilter ==
    [][/\ (out'.op = "BloomFilter" /\ out'.error) =>
              (bits' = {} /\ size' = 0 /\ addLog' = <<>>)
       /\ (out.op = "BloomFilter" /\ out.error) =>
              \A s \in Corpus :
                 /\ Add(s) => (bits' = IndexSet(s) /\ contains(bits', s) /\ size' = 0)
                 /\ Contains(s) => (out'.result = FALSE /\ bits' = {})
       /\ (out'.op = "test" /\ out'.error) =>
              /\ bits' = bits /\ size' = size /\ addLog' = addLog
              /\ out'.checked = <<>>
              /\ out'.positives = 0 /\ out'.negatives = 0
              /\ out'.maliciousUrls = <<>>]_vars

\* The constructor added nothing, add("a") was called, and then a test could
\* not open its file: the filter still holds exactly "a".
C11_Witness ==
    /\ out.op = "test"
    /\ out.error
    /\ out.positives = 0
    /\ size = 0
    /\ addLog = <<StrA>>
    /\ bits = IndexSet(StrA)
    /\ contains(bits, StrA)

\* C12: empty-filter negative.  On a constructed filter on which add was
\* never called, contains is false of every string, a contains call returns
\* false, and a test reports no positive: every line checked is a negative.
C12_EmptyFilterNegative ==
    (pc # "start" /\ addLog = <<>>) =>
        /\ \A s \in Corpus : ~contains(bits, s)
        /\ out.op = "contains" => ~out.result
        /\ out.op = "test" =>
              /\ out.positives = 0
              /\ out.maliciousUrls = <<>>
              /\ out.negatives = Len(out.checked)
              /\ \A j \in 1..Len(out.checked) : ~out.checked[j][2]

\* A test of the two lines "a" and "d" on a filter nothing was added to.
C12_Witness ==
    /\ out.op = "test"
    /\ addLog = <<>>
    /\ out.checked = <<<<StrA, FALSE>>, <<StrD, FALSE>>>>
    /\ out.negatives = 2

\* The positions add(s) passes to bits.set and contains(s) to bits.test: each
\* local, an unsigned value, modulo bits.size().
C13_Positions(s) ==
    LET a == AddHashesOf[s]
        c == ContainsHashesOf[s]
    IN  {h % BitsetSize(bits) : h \in {a.hash, a.hash2, a.hash3,
                                        c.hash, c.hash2, c.hash3}}

\* C13: index safety.  For every string (the empty one, a 16-character one
\* and one of negative chars included) the three positions add and contains
\* compute lie in 0 .. N-1, the locals they are reduced from are never
\* negative, and no reachable bitset has a bit outside 0 .. N-1.
C13_IndexSafety ==
    /\ bits \subseteq 0..(N - 1)
    /\ \A s \in Corpus :
          /\ C13_Positions(s) \subseteq 0..(N - 1)
          /\ \A h \in {AddHashesOf[s].hash, AddHashesOf[s].hash2,
                        AddHashesOf[s].hash3, ContainsHashesOf[s].hash,
                        ContainsHashesOf[s].hash2, ContainsHashesOf[s].hash3} :
                h >= 0

\* add was called on "\xC3\xA9" and on the 16-character string, whose
\* locals all exceed N, and contains has just answered for the latter.
C13_Witness ==
    /\ addLog = <<StrUtf8, LongUrl>>
    /\ out.op = "contains"
    /\ out.s = LongUrl
    /\ out.result
    /\ \A s \in {StrUtf8, LongUrl} :
          AddHashesOf[s].hash >= N /\ AddHashesOf[s].hash2 >= N
              /\ AddHashesOf[s].hash3 >= N
    /\ bits = IndexSet(StrUtf8) \cup IndexSet(LongUrl)

RECURSIVE C14_Times33(_, _)
\* h * 33 + char_code modulo 2^64, from 5381, over the first i characters.
C14_Times33(s, i) ==
    IF i = 0 THEN <<5381, 0, 0, 0>>
    ELSE TheOne({ U64Add(U64MulSmall(h, 33), U64FromSigned(s[i]))
           : h \in {C14_Times33(s, i - 1)}})

\* C14: djb2(s) is the value reached from 5381 by replacing h, for each
\* character in order, by (h * 33 + char_code) mod 2^64, char_code being
\* the signed char value; djb2("") is 5381.
C14_Djb2IsTimes33 ==
    out.op = "djb2" =>
        /\ out.result = C14_Times33(out.s, Len(out.s))
        /\ out.s = <<>> => out.result = <<5381, 0, 0, 0>>

\* djb2 of the 16-character string has returned; in some iteration hash had
\* one of its top five bits set, so that hash << 5 discarded it.
C14_Witness ==
    /\ out.op = "djb2"
    /\ out.s = LongUrl
    /\ \E i \in 1..Len(LongUrl) : Djb2Loop(LongUrl, i - 1)[NLimbs] >= 2 ^ 11

\* h * 65599 modulo 2^64, with 65599 = 256 * 256 + 63.
C15_Times65599(h) ==
    U64Add(U64MulSmall(U64MulSmall(h, 256), 256), U64MulSmall(h, 63))

RECURSIVE C15_Iterated(_, _)
\* h * 65599 + char_code modulo 2^64, from 0, over the first i characters.
C15_Iterated(s, i) ==
    IF i = 0 THEN <<0, 0, 0, 0>>
    ELSE TheOne({ U64Add(C15_Times65599(h), U64FromSigned(s[i]))
           : h \in {C15_Iterated(s, i - 1)}})

\* a < b for two unsigned long long values.
C15_Less(a, b) ==
    \E i \in 1..NLimbs : a[i] < b[i] /\ \A j \in (i + 1)..NLimbs : a[j] = b[j]

\* C15: sdbm(s) is the value reached from 0 by replacing h, for each
\* character in order, by (h * 65599 + char_code) mod 2^64; sdbm("") is 0.
C15_SdbmIsTimes65599 ==
    out.op = "sdbm" =>
        /\ out.result = C15_Iterated(out.s, Len(out.s))
        /\ out.s = <<>> => out.result = <<0, 0, 0, 0>>

\* sdbm("evil.com") has returned; in some iteration both shifts discarded
\* high bits of hash, and in some iteration c + (hash << 6) + (hash << 16)
\* was below hash, so that the subtraction wrapped.
C15_Witness ==
    /\ out.op = "sdbm"
    /\ out.s = EvilCom
    /\ \E i \in 1..Len(EvilCom) : SdbmLoop(EvilCom, i - 1)[NLimbs] >= 2 ^ 10
    /\ \E i \in 1..Len(EvilCom) :
          LET hash == SdbmLoop(EvilCom, i - 1)
              sum == U64Add(U64Add(U64FromSigned(EvilCom[i]), U64Shl(hash, 6)),
                            U64Shl(hash, 16))
          IN  C15_Less(sum, hash)

\* The magnitude |k| * q of a signed product, as an unsigned long long
\* (|k| < 2^15, 0 <= q < 2^31: the limbs hold it without a carry out).
C16_Magnitude(k, q) == U64MulSmall(U64(q), IF k >= 0 THEN k ELSE -k)

\* A magnitude below 2^63: the signed product is a long long.
C16_InLongLong(mag) == mag[NLimbs] < 2 ^ 15

\* C16: polynomial_hash never overflows its signed 64-bit intermediates.
\* Before and after every iteration 0 <= p_pow < m, and for that p_pow the
\* products (c - 'a' + 1) * p_pow, for every char value c in -128 .. 127,
\* and p_pow * p lie in the range of long long.
C16_NoSignedOverflow ==
    out.op = "polynomial_hash" =>
        \A i \in 0..Len(out.s) :
           LET q == PolyLoop(out.s, i, p, m).p_pow
           IN  /\ 0 <= q /\ q < m
               /\ \A c \in -128..127 :
                     C16_InLongLong(C16_Magnitude(c - CharA + 1, q))
               /\ C16_InLongLong(C16_Magnitude(p, q))

\* polynomial_hash of the 16-character string has returned; in some
\* iteration the factor c - 'a' + 1 was negative and p_pow * p needed more
\* than 32 bits.
C16_Witness ==
    /\ out.op = "polynomial_hash"
    /\ out.s = LongUrl
    /\ \E i \in 1..Len(LongUrl) :
          LET q == PolyLoop(LongUrl, i - 1, p, m).p_pow
          IN  /\ LongUrl[i] - CharA + 1 < 0
              /\ C16_Magnitude(p, q)[3] > 0

====
